---------------------------- MODULE Spec2Model ----------------------------
(***************************************************************************)
(* A model of the kacejot/kernel boot and driver layer:                    *)
(*   - the I/O capability model (Read/Write, read_exact, write_all,        *)
(*     the adapters Take and Chain),                                       *)
(*   - the GPIO pin-mux protocol and the PL011 UART bring-up,              *)
(*   - the boot orchestrator and its echo loop.                            *)
(* Each component has its own specification (SpecTake, SpecChain,          *)
(* SpecReadExact, SpecWriteAll, SpecBoot, ...); the variables of the       *)
(* other components rest at their idle values there.                       *)
(***************************************************************************)
EXTENDS Integers, Sequences, FiniteSets, TLC

VARIABLES
    \* ---- Take<T> (kernel/io/take.rs)
    limit,        \* Take.limit: the remaining budget
    limit0,       \* the limit given to Take::new (history)
    takeTotal,    \* sum of the counts returned by Take::read so far (history)
    takeCalls,    \* number of Take::read calls made
    takeLast,     \* record of the last Take::read call (history)
    \* ---- Chain<T, U, E> (kernel/io/chain.rs)
    done_first,   \* Chain.done_first
    first,        \* unread contents of the reader Chain.first
    second,       \* unread contents of the reader Chain.second
    first0,       \* contents of first at construction (history)
    second0,      \* contents of second at construction (history)
    srcMode,      \* "exact": readers return min(len, remaining); "lax": any count, or an error
    chainOut,     \* the bytes Chain::read has returned, in order (history)
    chainCalls,   \* number of Chain::read calls made
    zeroAt,       \* Len(chainOut) when first.read first returned Ok(0); -1 before (history)
    lateFirst,    \* number of first.read calls made after first.read returned Ok(0) (history)
    chainLast,    \* record of the last Chain::read call (history)
    \* ---- Read::read_exact (kernel/io/read.rs)
    rePc,         \* "loop": in the while loop; "done": returned
    reBuf,        \* the caller's buffer; 0 marks a position not written yet
    rePos,        \* number of positions filled: len(caller's buffer) - buf.len()
    reProduced,   \* the bytes produced by the read calls, in order (history)
    reReads,      \* number of read calls issued (history)
    reLast,       \* result of the last read call (history)
    reRet,        \* the result read_exact returned
    \* ---- Write::write_all (kernel/io/write.rs)
    waPc,         \* "loop": in the while loop; "done": returned
    waBuf,        \* the caller's buffer
    waPos,        \* number of bytes consumed: len(caller's buffer) - buf.len()
    waSunk,       \* the bytes the sink accepted, in order (history)
    waWrites,     \* number of write calls issued (history)
    waLast,       \* result of the last write call (history)
    waRet,        \* the result write_all returned
    \* ---- Write::write_fmt (kernel/io/write.rs)
    wfPc,         \* "fmt": in fmt::write; "write_str": in Adaptor::write_str; "done": returned
    wfFrags,      \* what the formatting produces: string fragments, or a failure of its own
    wfIdx,        \* the fragment fmt::write is at
    wfResult,     \* Adaptor.result
    wfRet,        \* the result write_fmt returned
    wfSunk,       \* the bytes the sink accepted during write_fmt, in order (history)
    wfFailErr,    \* the error of the first write_all that failed, <<>> if none (history)
    \* ---- boot orchestrator, GPIO and PL011 UART (kernel.rs, bsp.rs, bsp/gpio.rs, bsp/uart.rs)
    pc,           \* position of the single execution context
    drv,          \* index into bsp::drivers() of the loop of kernel::init
    simFail,      \* name of the driver whose init is simulated to fail, or "none"
    initLog,      \* the driver init calls that returned: name and result (history)
    panicMsg,     \* the message of the panic, <<>> while there is none
    gpioRegs,     \* GPIO register block: GPFSEL1, GPPUD, GPPUDCLK0, each a set of set bits
    uartRegs,     \* PL011 registers CR, ICR, IBRD, FBRD, LCRH, each a set of set bits
    spinI,        \* spin_for_cycles: number of nops executed by the running loop
    trace,        \* register writes and completed busy-waits, in order (history)
    mainPhase,    \* kernel_main: "wait" (first loop) or "echo" (second loop)
    data,         \* kernel_main: let mut data = [0u8]
    ioIdx,        \* PL011Uart::read / write: number of bytes of buf handled
    rxFifo,       \* hardware receive FIFO: words of DATA and error flags
    txFifo,       \* hardware transmit FIFO
    received,     \* the words that arrived on the line, in order (history)
    consumed,     \* the bytes kernel_main has read, in order (history)
    drOut,        \* the bytes written to the data register DR, in order (history)
    ioRet,        \* the result of the last PL011Uart::read / write call; NoRet while it runs
    wire          \* the words the hardware shifted out of the transmit FIFO, in order (history)

takeVars == <<limit, limit0, takeTotal, takeCalls, takeLast>>
chainVars == <<done_first, first, second, first0, second0, srcMode, chainOut, chainCalls, zeroAt, lateFirst, chainLast>>
reVars == <<rePc, reBuf, rePos, reProduced, reReads, reLast, reRet>>
waVars == <<waPc, waBuf, waPos, waSunk, waWrites, waLast, waRet>>
bootVars == <<pc, drv, simFail, initLog, panicMsg, gpioRegs, uartRegs, spinI, trace,
              mainPhase, data, ioIdx, rxFifo, txFifo, received, consumed, drOut,
              ioRet, wire>>
wfVars == <<wfPc, wfFrags, wfIdx, wfResult, wfRet, wfSunk, wfFailErr>>
vars == <<takeVars, chainVars, reVars, waVars, wfVars, bootVars>>

-----------------------------------------------------------------------------
(* Bounds of the model *)

\* largest limit given to Take::new
MaxLimit == 4
\* largest caller buffer handed to a read or write call
MaxBuf == 3
\* largest number of calls of an adapter's read in one run
MaxCalls == 4
\* largest number of bytes a finite source holds
MaxSrc == 3
\* largest buffer handed to read_exact or write_all
MaxXfer == 5
\* number of words that arrive on the serial line in one run
MaxInput == 4
\* depth of the hardware receive and transmit FIFOs
FifoDepth == 2
\* largest number of fragments a formatting produces
MaxFrags == 3

-----------------------------------------------------------------------------
(* Results and errors *)

Min(a, b) == IF a < b THEN a ELSE b

\* Result<usize, Err>: Ok(n)
Ok(n) == [ok |-> TRUE, n |-> n, err |-> <<"none">>]
\* Result<usize, Err>: Err(e); e is the error value of the callee
Err(e) == [ok |-> FALSE, n |-> 0, err |-> e]

\* no result yet: the call has not returned
NoRet == [ok |-> FALSE, n |-> 0, err |-> <<"pending">>]

\* Result<(), E>: Ok(())
OkUnit == [ok |-> TRUE, n |-> 0, err |-> <<"unit">>]

\* io::EndOfFile
EndOfFile == <<"EndOfFile">>

\* E::from(e): the conversion of a callee's error e into the caller's error
\* type E (the From impls required by the where clauses)
FromErr(e) == <<"E">> \o e

\* What a call reader.read(buf) can produce for a reader that obeys the Read
\* contract (at most len(buf) bytes), len(buf) = len, with avail bytes left:
\* an "exact" reader returns min(len, avail); a "lax" one any count up to
\* that (0 meaning "nothing right now"), or its native error e.
ReadOutcomes(mode, avail, len, e) ==
    IF mode = "exact"
    THEN {Ok(Min(len, avail))}
    ELSE {Ok(n) : n \in 0..Min(len, avail)} \cup {Err(<<e>>)}

\* the sequence s without its first n elements: &s[n..]
Drop(s, n) == SubSeq(s, n + 1, Len(s))
\* the first n elements of s: &s[..n]
Take(s, n) == SubSeq(s, 1, n)
\* s is a prefix of t
IsPrefix(s, t) == Len(s) <= Len(t) /\ s = Take(t, Len(s))

-----------------------------------------------------------------------------
(* Take<T>: kernel/io/take.rs *)

\* the inner reader of a Take never runs dry in this model: it can always
\* produce up to len(buf) bytes
TakeInnerAvail == MaxBuf + MaxLimit + 1

NoTakeCall == [pre |-> 0, len |-> 0, innerLen |-> -1, ret |-> Ok(0)]

TakeInit ==
    /\ limit0 \in 0..MaxLimit
    /\ limit = limit0
    /\ takeTotal = 0
    /\ takeCalls = 0
    /\ takeLast = NoTakeCall

TakeExhausted_Never(lim) == FALSE

TakeMax_NoCap(len, lim) == len

\* let max = cmp::min(buf.len() as u64, self.limit) as usize;
TakeMax(len, lim) == Min(len, lim)

\* if self.limit == 0 { return Ok(0); }
TakeExhausted(lim) == lim = 0

\* Take::read(buf) with len(buf) = len
TakeRead(len) ==
    /\ takeCalls < MaxCalls
    /\ takeCalls' = takeCalls + 1
    /\ IF TakeExhausted(limit)
       THEN /\ takeLast' = [pre |-> limit, len |-> len, innerLen |-> -1, ret |-> Ok(0)]
            /\ UNCHANGED <<limit, takeTotal>>
       ELSE LET max == TakeMax(len, limit) IN
            \E r \in ReadOutcomes("lax", TakeInnerAvail, max, "IoErr") :
               /\ takeLast' = [pre |-> limit, len |-> len, innerLen |-> max, ret |-> r]
               /\ IF r.ok
                  THEN /\ limit' = limit - r.n
                       /\ takeTotal' = takeTotal + r.n
                  ELSE UNCHANGED <<limit, takeTotal>>
    /\ UNCHANGED limit0

TakeReadAny == \E len \in 0..MaxBuf : TakeRead(len)

\* C1: for an inner reader that obeys the Read contract, the counts returned
\* by Take::read never add up to more than the limit given at construction;
\* and a Take::read made with the remaining limit at 0 returns Ok(0) without
\* calling inner.read and leaves the limit at 0 (so every later read does too).
C1_TakeWithinLimit ==
    /\ takeTotal <= limit0
    /\ limit >= 0
    /\ (takeCalls > 0 /\ takeLast.pre = 0) =>
          /\ takeLast.ret = Ok(0)
          /\ takeLast.innerLen = -1
          /\ limit = 0

\* a Take with a positive limit was read to exhaustion and then read again
\* with a non-empty buffer
C1_Witness ==
    /\ limit0 > 1 /\ takeTotal = limit0
    /\ takeCalls > 2 /\ takeLast.pre = 0 /\ takeLast.len > 0

\* pub fn limit(&self) -> u64 { self.limit }
TakeLimit == limit

\* C15: Take::limit() is the construction limit minus the sum of the counts
\* the successful reads returned; a successful read lowers it by exactly its
\* count, a failed read leaves it unchanged, and inner.read is only ever
\* called with a buffer of length min(len(buf), remaining limit).
C15_TakeLimitAccounting ==
    /\ TakeLimit = limit0 - takeTotal
    /\ takeCalls > 0 =>
          /\ takeLast.innerLen # -1 =>
                takeLast.innerLen = Min(takeLast.len, takeLast.pre)
          /\ takeLast.ret.ok => TakeLimit = takeLast.pre - takeLast.ret.n
          /\ ~takeLast.ret.ok => TakeLimit = takeLast.pre

\* after a successful read, a read with a buffer longer than the remaining
\* limit failed in the inner reader
C15_Witness ==
    /\ takeCalls > 1 /\ ~takeLast.ret.ok
    /\ 0 < takeLast.pre /\ takeLast.pre < limit0 /\ takeLast.len > takeLast.pre
    /\ takeLast.innerLen = takeLast.pre /\ TakeLimit = takeLast.pre

TakeIdle ==
    /\ limit0 = 0 /\ limit = 0 /\ takeTotal = 0 /\ takeCalls = 0
    /\ takeLast = NoTakeCall

-----------------------------------------------------------------------------
(* Chain<T, U, E>: kernel/io/chain.rs *)

\* the contents of the two sources: first holds 1, 2, ..., second 11, 12, ...
FirstBytes(n) == [i \in 1..n |-> i]
SecondBytes(n) == [i \in 1..n |-> 10 + i]
IsFirstByte(b) == b < 10

NoChainCall ==
    [preDone |-> FALSE, len |-> 0, calledFirst |-> FALSE, firstRet |-> Ok(0),
     calledSecond |-> FALSE, ret |-> Ok(0)]

\* Chain::new(first, second)
ChainInit ==
    /\ done_first = FALSE
    /\ \E n \in 0..MaxSrc : first = FirstBytes(n)
    /\ \E n \in 0..MaxSrc : second = SecondBytes(n)
    /\ first0 = first
    /\ second0 = second
    /\ srcMode \in {"exact", "lax"}
    /\ chainOut = <<>>
    /\ chainCalls = 0
    /\ zeroAt = -1
    /\ lateFirst = 0
    /\ chainLast = NoChainCall

ChainNextDone_Forget(done, n) == done

\* match self.first.read(buf)? { 0 => { self.done_first = true; } n => return Ok(n) }
\* done_first after first.read returned Ok(n)
ChainNextDone(done, n) == IF n = 0 THEN TRUE ELSE done

ChainDoneOnErr_Set(done) == TRUE

\* self.first.read(buf)? with first.read returning Err: the ? operator
\* returns before the match, done_first is not assigned
ChainDoneOnErr(done) == done

\* self.second.read(buf).map_err(From::from), after first.read returned r1
\* (r1 = Ok(0)) or without a call of first.read (calledFirst = FALSE)
ChainReadSecond(len, calledFirst, r1) ==
    \E r2 \in ReadOutcomes(srcMode, Len(second), len, "ErrU") :
       /\ second' = Drop(second, r2.n)
       /\ chainOut' = chainOut \o Take(second, r2.n)
       /\ chainLast' = [preDone |-> done_first, len |-> len,
                        calledFirst |-> calledFirst, firstRet |-> r1,
                        calledSecond |-> TRUE,
                        ret |-> IF r2.ok THEN r2 ELSE Err(FromErr(r2.err))]

\* Chain::read(buf) with len(buf) = len
ChainRead(len) ==
    /\ chainCalls < MaxCalls
    /\ chainCalls' = chainCalls + 1
    /\ IF ~done_first
       THEN \E r1 \in ReadOutcomes(srcMode, Len(first), len, "ErrT") :
               /\ lateFirst' = IF zeroAt >= 0 THEN lateFirst + 1 ELSE lateFirst
               /\ IF ~r1.ok
                  THEN \* the ? operator: return Err(E::from(e))
                       /\ chainLast' = [preDone |-> done_first, len |-> len,
                                        calledFirst |-> TRUE, firstRet |-> r1,
                                        calledSecond |-> FALSE,
                                        ret |-> Err(FromErr(r1.err))]
                       /\ done_first' = ChainDoneOnErr(done_first)
                       /\ UNCHANGED <<first, second, chainOut, zeroAt>>
                  ELSE /\ done_first' = ChainNextDone(done_first, r1.n)
                       /\ zeroAt' = IF r1.n = 0 /\ zeroAt < 0 THEN Len(chainOut) ELSE zeroAt
                       /\ IF r1.n = 0
                          THEN /\ ChainReadSecond(len, TRUE, r1)
                               /\ UNCHANGED first
                          ELSE /\ first' = Drop(first, r1.n)
                               /\ chainOut' = chainOut \o Take(first, r1.n)
                               /\ chainLast' = [preDone |-> done_first, len |-> len,
                                                calledFirst |-> TRUE, firstRet |-> r1,
                                                calledSecond |-> FALSE, ret |-> r1]
                               /\ UNCHANGED second
       ELSE /\ ChainReadSecond(len, FALSE, Ok(0))
            /\ UNCHANGED <<done_first, first, zeroAt, lateFirst>>
    /\ UNCHANGED <<srcMode, first0, second0>>

ChainReadAny == \E len \in 0..MaxBuf : ChainRead(len)

\* C2: Chain::read returns bytes of first only until first.read has returned
\* 0: the bytes returned up to that call are all from first, the bytes
\* returned from that call on are all from second, done_first is set exactly
\* when first.read has returned 0, and first.read is never called after it.
C2_ChainFirstThenSecond ==
    /\ done_first <=> (zeroAt >= 0)
    /\ \A i \in 1..Len(chainOut) :
          IsFirstByte(chainOut[i]) <=> (zeroAt < 0 \/ i <= zeroAt)
    /\ lateFirst = 0
    /\ chainLast.calledFirst => ~chainLast.preDone

\* first was read in part, returned 0, and bytes of second were returned in
\* a later call that did not touch first
C2_Witness ==
    /\ zeroAt > 0 /\ Len(chainOut) > zeroAt
    /\ chainLast.preDone /\ ~chainLast.calledFirst /\ chainLast.ret.n > 0
    /\ Len(first) > 0

\* C18: with finite sources that return min(len(buf), bytes remaining) on
\* every read, and Chain::read calls with buffers of any length, 0 included,
\* the bytes Chain::read has returned are a prefix of the contents of first
\* followed by the contents of second.
C18_ChainYieldsPrefix ==
    srcMode = "exact" => IsPrefix(chainOut, first0 \o second0)

\* C19: when first.read returns an error, Chain::read returns that error
\* converted to E, done_first stays false and second.read is not called;
\* the next Chain::read calls first.read again.
C19_ChainFirstError ==
    /\ [](chainLast.calledFirst /\ ~chainLast.firstRet.ok =>
            /\ chainLast.ret = Err(FromErr(chainLast.firstRet.err))
            /\ chainLast.ret.err = <<"E", "ErrT">>
            /\ ~chainLast.calledSecond
            /\ ~chainLast.preDone
            /\ ~done_first)
    /\ [][(chainLast.calledFirst /\ ~chainLast.firstRet.ok
              /\ chainCalls' = chainCalls + 1) => chainLast'.calledFirst]_vars

\* after some bytes of first were returned, first.read failed with bytes of
\* first still unread
C19_Witness ==
    /\ chainLast.calledFirst /\ ~chainLast.firstRet.ok
    /\ chainCalls > 1 /\ Len(chainOut) > 0 /\ Len(first) > 0 /\ Len(second) > 0

ChainIdle ==
    /\ done_first = FALSE /\ first = <<>> /\ second = <<>> /\ srcMode = "exact"
    /\ first0 = <<>> /\ second0 = <<>>
    /\ chainOut = <<>> /\ chainCalls = 0 /\ zeroAt = -1 /\ lateFirst = 0
    /\ chainLast = NoChainCall

-----------------------------------------------------------------------------
(* Read::read_exact: kernel/io/read.rs *)

\* read_exact(buf) is entered with a buffer of any length, nothing read yet
ReadExactInit ==
    /\ rePc = "loop"
    /\ \E n \in 0..MaxXfer : reBuf = [i \in 1..n |-> 0]
    /\ rePos = 0
    /\ reProduced = <<>>
    /\ reReads = 0
    /\ reLast = OkUnit
    /\ reRet = OkUnit

ReLoopCond_OffByOne(rem) == rem > 1

\* while buf.len() > 0
ReLoopCond(rem) == rem > 0

\* the bytes the reader produces on its k-th to (k+n-1)-th byte: 101, 102, ...
Stream(k, n) == [i \in 1..n |-> 100 + k + i - 1]

\* one pass of the while loop of read_exact, or its exit
ReadExactStep ==
    /\ rePc = "loop"
    /\ LET rem == Len(reBuf) - rePos IN
       IF ~ReLoopCond(rem)
       THEN \* Ok(())
            /\ rePc' = "done"
            /\ reRet' = OkUnit
            /\ UNCHANGED <<reBuf, rePos, reProduced, reReads, reLast>>
       ELSE \E r \in ReadOutcomes("lax", rem, rem, "IoErr") :
               /\ reReads' = reReads + 1
               /\ reLast' = r
               /\ IF ~r.ok
                  THEN \* self.read(&mut buf)? : Err(E::from(e))
                       /\ rePc' = "done"
                       /\ reRet' = Err(FromErr(r.err))
                       /\ UNCHANGED <<reBuf, rePos, reProduced>>
                  ELSE IF r.n = 0
                  THEN \* 0 => return Err(E::from(io::EndOfFile))
                       /\ rePc' = "done"
                       /\ reRet' = Err(FromErr(EndOfFile))
                       /\ UNCHANGED <<reBuf, rePos, reProduced>>
                  ELSE \* n => buf = &mut tmp[n..]
                       LET got == Stream(Len(reProduced) + 1, r.n) IN
                       /\ reBuf' = [i \in 1..Len(reBuf) |->
                                      IF i > rePos /\ i <= rePos + r.n
                                      THEN got[i - rePos] ELSE reBuf[i]]
                       /\ reProduced' = reProduced \o got
                       /\ rePos' = rePos + r.n
                       /\ UNCHANGED <<rePc, reRet>>

\* C3: read_exact returns Ok(()) only with every position of buf filled, in
\* order, by the bytes the reads produced; a read returning 0 makes it return
\* the converted EndOfFile at once, a read returning an error makes it return
\* that error converted; for an empty buf it returns Ok(()) without a read.
C3_ReadExactAllOrError ==
    /\ Take(reBuf, rePos) = reProduced
    /\ \A i \in (rePos + 1)..Len(reBuf) : reBuf[i] = 0
    /\ (rePc = "done" /\ reRet.ok) => (rePos = Len(reBuf) /\ reBuf = reProduced)
    /\ (reReads > 0 /\ reLast = Ok(0)) =>
          (rePc = "done" /\ reRet = Err(FromErr(EndOfFile)) /\ rePos < Len(reBuf))
    /\ (reReads > 0 /\ ~reLast.ok) =>
          (rePc = "done" /\ reRet = Err(FromErr(reLast.err)))
    /\ (rePc = "done" /\ Len(reBuf) = 0) => (reRet = OkUnit /\ reReads = 0)
    /\ (rePc = "done" /\ ~reRet.ok) => (reReads > 0 /\ (~reLast.ok \/ reLast = Ok(0)))

\* a buffer of three or more bytes was filled by more than one read
C3_Witness ==
    /\ rePc = "done" /\ reRet = OkUnit
    /\ Len(reBuf) >= 3 /\ reReads >= 2 /\ reReads < Len(reBuf)

ReadExactIdle ==
    /\ rePc = "idle" /\ reBuf = <<>> /\ rePos = 0 /\ reProduced = <<>>
    /\ reReads = 0 /\ reLast = OkUnit /\ reRet = OkUnit

-----------------------------------------------------------------------------
(* Write::write_all: kernel/io/write.rs *)

\* write_all(buf) is entered with a buffer of any length holding 1, 2, ...
WriteAllInit ==
    /\ waPc = "loop"
    /\ \E n \in 0..MaxXfer : waBuf = [i \in 1..n |-> i]
    /\ waPos = 0
    /\ waSunk = <<>>
    /\ waWrites = 0
    /\ waLast = OkUnit
    /\ waRet = OkUnit

WaOnZero_Done == OkUnit

\* 0 => return Err(E::from(io::EndOfFile))
WaOnZero == Err(FromErr(EndOfFile))

\* one pass of the while loop of write_all, or its exit
WriteAllStep ==
    /\ waPc = "loop"
    /\ LET rest == Drop(waBuf, waPos) IN
       IF ~(Len(rest) > 0)
       THEN \* Ok(())
            /\ waPc' = "done"
            /\ waRet' = OkUnit
            /\ UNCHANGED <<waBuf, waPos, waSunk, waWrites, waLast>>
       ELSE \* self.write(buf): the sink accepts the first n bytes of buf
            \E r \in ReadOutcomes("lax", Len(rest), Len(rest), "IoErr") :
               /\ waWrites' = waWrites + 1
               /\ waLast' = r
               /\ waSunk' = waSunk \o Take(rest, r.n)
               /\ IF ~r.ok
                  THEN \* self.write(buf)? : Err(E::from(e))
                       /\ waPc' = "done"
                       /\ waRet' = Err(FromErr(r.err))
                       /\ UNCHANGED waPos
                  ELSE IF r.n = 0
                  THEN /\ waPc' = "done"
                       /\ waRet' = WaOnZero
                       /\ UNCHANGED waPos
                  ELSE \* n => buf = &buf[n..]
                       /\ waPos' = waPos + r.n
                       /\ UNCHANGED <<waPc, waRet>>
    /\ UNCHANGED waBuf

\* C4: write_all returns Ok(()) only when the sink has accepted all bytes of
\* buf, in order and each once; a write returning 0 makes it return the
\* converted EndOfFile at once, a write returning an error makes it return
\* that error converted.
C4_WriteAllAllOrError ==
    /\ waSunk = Take(waBuf, waPos)
    /\ (waPc = "done" /\ waRet.ok) => (waPos = Len(waBuf) /\ waSunk = waBuf)
    /\ (waWrites > 0 /\ waLast = Ok(0)) =>
          (waPc = "done" /\ waRet = Err(FromErr(EndOfFile)) /\ waPos < Len(waBuf))
    /\ (waWrites > 0 /\ ~waLast.ok) =>
          (waPc = "done" /\ waRet = Err(FromErr(waLast.err)))
    /\ (waPc = "done" /\ ~waRet.ok) => (waWrites > 0 /\ (~waLast.ok \/ waLast = Ok(0)))

\* a buffer of three or more bytes was drained by more than one write
C4_Witness ==
    /\ waPc = "done" /\ waRet = OkUnit
    /\ Len(waBuf) >= 3 /\ waWrites >= 2 /\ waWrites < Len(waBuf)

WriteAllIdle ==
    /\ waPc = "idle" /\ waBuf = <<>> /\ waPos = 0 /\ waSunk = <<>>
    /\ waWrites = 0 /\ waLast = OkUnit /\ waRet = OkUnit

-----------------------------------------------------------------------------
(* Write::write_fmt: kernel/io/write.rs *)

\* a string fragment handed to write_str
StrFrag(str) == [fail |-> FALSE, s |-> str]
\* a formatting step that reports failure itself, without any write
FailFrag == [fail |-> TRUE, s |-> <<>>]
FragKinds == {StrFrag(<<7>>), StrFrag(<<8, 9>>), FailFrag}

\* the bytes of the string fragments fs, in order
RECURSIVE Flatten(_)
Flatten(fs) == IF fs = <<>> THEN <<>> ELSE Head(fs).s \o Flatten(Tail(fs))

\* let mut output = Adaptor { inner: self, result: Ok(()) }; fmt::write(&mut output, fmt)
WriteFmtInit ==
    /\ wfPc = "fmt"
    /\ \E n \in 0..MaxFrags : wfFrags \in [1..n -> FragKinds]
    /\ wfIdx = 1
    /\ wfResult = OkUnit
    /\ wfRet = NoRet
    /\ wfSunk = <<>>
    /\ wfFailErr = <<>>

AdaptorResult_Discard(old, r) == old

\* write_str: match self.inner.write_all(..) { Ok(()) => .., Err(e) => { self.result = Err(e); .. } }
\* Adaptor.result after write_all returned r
AdaptorResult(old, r) == IF r.ok THEN old ELSE r

WfOnFmtError_Synthesize(result) ==
    IF ~result.ok THEN result ELSE Err(FromErr(<<"FormatError">>))

\* Err(..) => if output.result.is_err() { output.result } else { output.result }
WfOnFmtError(result) == IF ~result.ok THEN result ELSE result

\* fmt::write at its next fragment: the end of the formatting (Ok(()) =>
\* Ok(())), a failure of the formatting itself, or a call of write_str,
\* which calls write_all on the fragment's bytes
WfNext ==
    /\ wfPc = "fmt"
    /\ IF wfIdx > Len(wfFrags)
       THEN /\ wfPc' = "done"
            /\ wfRet' = OkUnit
            /\ UNCHANGED waVars
       ELSE IF wfFrags[wfIdx].fail
       THEN /\ wfPc' = "done"
            /\ wfRet' = WfOnFmtError(wfResult)
            /\ UNCHANGED waVars
       ELSE /\ wfPc' = "write_str"
            /\ waPc' = "loop"
            /\ waBuf' = wfFrags[wfIdx].s
            /\ waPos' = 0
            /\ waSunk' = <<>>
            /\ waWrites' = 0
            /\ waLast' = OkUnit
            /\ waRet' = OkUnit
            /\ UNCHANGED wfRet
    /\ UNCHANGED <<wfFrags, wfIdx, wfResult, wfSunk, wfFailErr>>

\* write_all has returned to write_str: on Ok(()) the formatting goes on; on
\* Err(e) write_str keeps e and returns Err(fmt::Error), fmt::write returns
\* it, and write_fmt returns
WfWriteStrReturn ==
    /\ wfPc = "write_str"
    /\ waPc = "done"
    /\ waPc' = "idle"
    /\ wfSunk' = wfSunk \o waSunk
    /\ wfResult' = AdaptorResult(wfResult, waRet)
    /\ IF waRet.ok
       THEN /\ wfIdx' = wfIdx + 1
            /\ wfPc' = "fmt"
            /\ UNCHANGED <<wfRet, wfFailErr>>
       ELSE /\ wfPc' = "done"
            /\ wfRet' = WfOnFmtError(wfResult')
            /\ wfFailErr' = waRet.err
            /\ UNCHANGED wfIdx
    /\ UNCHANGED <<wfFrags, waBuf, waPos, waSunk, waWrites, waLast, waRet>>

\* C14: if the write_all of a fragment fails with error e, write_fmt returns
\* Err(e), the error of that first failing fragment, at once: no later
\* fragment reaches the sink.
C14_WriteFmtKeepsIoError ==
    (wfFailErr # <<>>) =>
       /\ wfPc = "done"
       /\ wfRet = Err(wfFailErr)
       /\ wfFailErr \in {FromErr(<<"IoErr">>), FromErr(EndOfFile)}
       /\ wfFailErr = waRet.err
       /\ ~wfFrags[wfIdx].fail
       /\ \A i \in 1..(wfIdx - 1) : ~wfFrags[i].fail
       /\ IsPrefix(Flatten(Take(wfFrags, wfIdx - 1)), wfSunk)
       /\ IsPrefix(wfSunk, Flatten(Take(wfFrags, wfIdx)))
       /\ wfSunk # Flatten(Take(wfFrags, wfIdx))

\* the second of three fragments failed in the middle: write_fmt returned
\* its error, with the third fragment unwritten
C14_Witness ==
    /\ wfPc = "done" /\ wfFailErr = FromErr(EndOfFile)
    /\ Len(wfFrags) = 3 /\ wfIdx = 2 /\ wfSunk = <<7, 8>>

\* C16: when the formatting reports failure and no write_all failed,
\* write_fmt returns Ok(()).
C16_WriteFmtSwallowsFmtError ==
    (wfPc = "done" /\ wfIdx <= Len(wfFrags) /\ wfFrags[wfIdx].fail) =>
       (wfFailErr = <<>> /\ wfResult = OkUnit /\ wfRet = OkUnit)

\* a fragment was written, then the formatting failed by itself
C16_Witness ==
    /\ wfPc = "done" /\ wfIdx = 2 /\ Len(wfFrags) >= 2 /\ wfFrags[2].fail
    /\ wfSunk = <<8, 9>>
    /\ wfRet = OkUnit

WriteFmtIdle ==
    /\ wfPc = "idle" /\ wfFrags = <<>> /\ wfIdx = 0 /\ wfResult = OkUnit
    /\ wfRet = NoRet /\ wfSunk = <<>> /\ wfFailErr = <<>>

-----------------------------------------------------------------------------
(* Register overlay: a 32-bit register is the set of its set bits *)

RECURSIVE BitsValue(_)
\* the number whose set bits are S
BitsValue(S) ==
    IF S = {} THEN 0
    ELSE LET i == CHOOSE x \in S : TRUE IN 2^i + BitsValue(S \ {i})

\* the set bits of the number v, v < 2^16
Bits(v) == {i \in 0..15 : (v \div 2^i) % 2 = 1}

\* Field OFFSET(off) NUMBITS(n): its mask
FieldMask(off, n) == off..(off + n - 1)
\* Field.val(v): the value v, cut to the field's width, at the field's place
FieldVal(off, n, v) == {off + i : i \in Bits(v) \cap (0..(n - 1))}
\* reg.read(Field)
FieldRead(reg, off, n) == BitsValue({i - off : i \in reg \cap FieldMask(off, n)})
\* reg.modify(fv): the bits of mask replaced by val, the others kept
RegModify(old, mask, val) == (old \ mask) \cup val

\* contents a register may hold at reset, before the driver writes it
RegJunk == {{}, 0..31, {1, 9, 13, 15}}

-----------------------------------------------------------------------------
(* GPIO driver: bsp/gpio.rs, and bsp::spin_for_cycles *)

\* bsp::spin_for_cycles(150)
SpinCycles == 150

\* the entry of trace for a write of val to reg
WriteEv(reg, val) == [reg |-> reg, val |-> val, n |-> 0]
\* the entry of trace for a completed busy-wait of n nops
SpinEv(n) == [reg |-> "spin", val |-> {}, n |-> n]

GpioRegNames == {"GPFSEL0", "GPFSEL1", "GPFSEL2", "GPFSEL3", "GPFSEL4", "GPFSEL5",
                 "GPPUD", "GPPUDCLK0", "GPPUDCLK1"}
UartRegNames == {"CR", "ICR", "IBRD", "FBRD", "LCRH"}

\* GPFSEL1::FSEL14::AltFunc0 + GPFSEL1::FSEL15::AltFunc0
GpioFselMask == FieldMask(12, 3) \cup FieldMask(15, 3)
GpioFselVal == FieldVal(12, 3, 4) \cup FieldVal(15, 3, 4)

GpioFselUpdate_Write(old) == GpioFselVal

\* GPFSEL1.modify(FSEL14::AltFunc0 + FSEL15::AltFunc0): the new contents of
\* GPFSEL1, old being the contents before
GpioFselUpdate(old) == RegModify(old, GpioFselMask, GpioFselVal)

GpioClkAssert_Modify(old) == RegModify(old, FieldMask(14, 1) \cup FieldMask(15, 1),
                                       FieldVal(14, 1, 1) \cup FieldVal(15, 1, 1))

\* GPPUDCLK0.write(PUDCLK14::AssertClock + PUDCLK15::AssertClock): the new
\* contents of GPPUDCLK0, old being the contents before
GpioClkAssert(old) == FieldVal(14, 1, 1) \cup FieldVal(15, 1, 1)

GpioWrite(reg, val) ==
    /\ gpioRegs' = [gpioRegs EXCEPT ![reg] = val]
    /\ trace' = Append(trace, WriteEv(reg, val))

\* self.GPFSEL1.modify(FSEL14::AltFunc0 + FSEL15::AltFunc0)
GpioFsel ==
    /\ pc = "gpio_fsel"
    /\ GpioWrite("GPFSEL1", GpioFselUpdate(gpioRegs["GPFSEL1"]))
    /\ pc' = "gpio_pud"
    /\ UNCHANGED <<drv, simFail, initLog, panicMsg, uartRegs, spinI, mainPhase, data,
                   ioIdx, rxFifo, txFifo, received, consumed, drOut,
                   ioRet, wire>>

\* self.GPPUD.set(0); then spin_for_cycles is entered
GpioPud ==
    /\ pc = "gpio_pud"
    /\ GpioWrite("GPPUD", {})
    /\ pc' = "gpio_spin1"
    /\ spinI' = 0
    /\ UNCHANGED <<drv, simFail, initLog, panicMsg, uartRegs, mainPhase, data,
                   ioIdx, rxFifo, txFifo, received, consumed, drOut,
                   ioRet, wire>>

\* for _ in 0..cycles { asm::nop(); }: one nop, or the exit of the loop
Spin ==
    /\ pc \in {"gpio_spin1", "gpio_spin2"}
    /\ IF spinI < SpinCycles
       THEN /\ spinI' = spinI + 1
            /\ UNCHANGED <<pc, trace>>
       ELSE /\ trace' = Append(trace, SpinEv(spinI))
            /\ pc' = IF pc = "gpio_spin1" THEN "gpio_clk" ELSE "gpio_clk0"
            /\ UNCHANGED spinI
    /\ UNCHANGED <<drv, simFail, initLog, panicMsg, gpioRegs, uartRegs, mainPhase, data,
                   ioIdx, rxFifo, txFifo, received, consumed, drOut,
                   ioRet, wire>>

\* self.GPPUDCLK0.write(...); then spin_for_cycles is entered
GpioClk ==
    /\ pc = "gpio_clk"
    /\ GpioWrite("GPPUDCLK0", GpioClkAssert(gpioRegs["GPPUDCLK0"]))
    /\ pc' = "gpio_spin2"
    /\ spinI' = 0
    /\ UNCHANGED <<drv, simFail, initLog, panicMsg, uartRegs, mainPhase, data,
                   ioIdx, rxFifo, txFifo, received, consumed, drOut,
                   ioRet, wire>>

\* self.GPPUDCLK0.set(0); map_pl011_uart and post_init return, kernel_main is entered
GpioClk0 ==
    /\ pc = "gpio_clk0"
    /\ GpioWrite("GPPUDCLK0", {})
    /\ pc' = "km_read"
    /\ mainPhase' = "wait"
    /\ UNCHANGED <<drv, simFail, initLog, panicMsg, uartRegs, spinI, data,
                   ioIdx, rxFifo, txFifo, received, consumed, drOut,
                   ioRet, wire>>

-----------------------------------------------------------------------------
(* PL011 UART driver: bsp/uart.rs *)

UartCrDisable_Keep(old) == old

\* self.CR.set(0): the new contents of CR, old being the contents before
UartCrDisable(old) == {}

\* ICR::ALL::CLEAR: the field ALL with value 0
UartIcrVal == FieldVal(0, 11, 0)

UartIbrdVal_Wrong == FieldVal(0, 16, 26)

\* IBRD::IBRD.val(13)
UartIbrdVal == FieldVal(0, 16, 13)

\* FBRD::FBRD.val(2)
UartFbrdVal == FieldVal(0, 6, 2)

\* LCRH::WLEN::EightBit + LCRH::FEN::FifosEnabled
UartLcrhVal == FieldVal(5, 2, 3) \cup FieldVal(4, 1, 1)

\* CR::UARTEN::Enabled + CR::TXE::Enabled + CR::RXE::Enabled
UartCrEnable == FieldVal(0, 1, 1) \cup FieldVal(8, 1, 1) \cup FieldVal(9, 1, 1)

\* one statement of PL011Uart::init: at position at, write val to reg and
\* go on to position next
UartInitStep(at, reg, val, next) ==
    /\ pc = at
    /\ uartRegs' = [uartRegs EXCEPT ![reg] = val]
    /\ trace' = Append(trace, WriteEv(reg, val))
    /\ pc' = next
    /\ UNCHANGED <<drv, simFail, initLog, panicMsg, gpioRegs, spinI, mainPhase, data,
                   ioIdx, rxFifo, txFifo, received, consumed, drOut,
                   ioRet, wire>>

UartInitCr0 == UartInitStep("uart_cr0", "CR", UartCrDisable(uartRegs["CR"]), "uart_icr")
UartInitIcr == UartInitStep("uart_icr", "ICR", UartIcrVal, "uart_ibrd")
UartInitIbrd == UartInitStep("uart_ibrd", "IBRD", UartIbrdVal, "uart_fbrd")
UartInitFbrd == UartInitStep("uart_fbrd", "FBRD", UartFbrdVal, "uart_lcrh")
UartInitLcrh == UartInitStep("uart_lcrh", "LCRH", UartLcrhVal, "uart_cr")
UartInitCr == UartInitStep("uart_cr", "CR", UartCrEnable, "uart_ret")

-----------------------------------------------------------------------------
\* FR: the flag register, as the hardware derives it from its FIFOs
\* (TXFE is bit 7, TXFF bit 5, RXFE bit 4)
FR ==
    (IF txFifo = <<>> THEN {7} ELSE {})
    \cup (IF Len(txFifo) >= FifoDepth THEN {5} ELSE {})
    \cup (IF rxFifo = <<>> THEN {4} ELSE {})

\* reg.matches_all(fv)
MatchesAll(reg, mask, val) == reg \cap mask = val

\* the words the line can deliver: DATA in bits 0..7, FE (framing error) in
\* bit 8: a newline, an 'a', and a 'b' flagged with a framing error
RxWords == {10, 97, 354}

\* self.DR.read(DR::DATA) as u8, w being the word at the head of the receive FIFO
DrData(w) == FieldRead(Bits(w), 0, 8) % 256

\* the hardware receives a word: only with the UART and its receive section
\* enabled, and with room in the receive FIFO
HwRxArrive ==
    /\ Len(received) < MaxInput
    /\ {0, 9} \subseteq uartRegs["CR"]
    /\ Len(rxFifo) < FifoDepth
    /\ \E w \in RxWords :
          /\ rxFifo' = Append(rxFifo, w)
          /\ received' = Append(received, w)
    /\ UNCHANGED <<pc, drv, simFail, initLog, panicMsg, gpioRegs, uartRegs, spinI, trace,
                   mainPhase, data, ioIdx, txFifo, consumed, drOut,
                   ioRet, wire>>

\* the hardware shifts out the word at the head of the transmit FIFO
HwTxDrain ==
    /\ txFifo # <<>>
    /\ {0, 8} \subseteq uartRegs["CR"]
    /\ txFifo' = Tail(txFifo)
    /\ wire' = Append(wire, Head(txFifo))
    /\ UNCHANGED <<pc, drv, simFail, initLog, panicMsg, gpioRegs, uartRegs, spinI, trace,
                   mainPhase, data, ioIdx, rxFifo, received, consumed, drOut, ioRet>>

RxEmpty_Never(fr) == FALSE

\* self.FR.matches_all(FR::RXFE::SET), fr being the contents of FR
RxEmpty(fr) == MatchesAll(fr, FieldMask(4, 1), FieldVal(4, 1, 1))

TxFull_Never(fr) == FALSE
TxFull_Always(fr) == TRUE

\* self.FR.matches_all(FR::TXFF::SET), fr being the contents of FR
TxFull(fr) == MatchesAll(fr, FieldMask(5, 1), FieldVal(5, 1, 1))

\* Ok(buf.len())
UartIoResult(buf) == Ok(Len(buf))

\* PL011Uart::read: while self.FR.matches_all(FR::RXFE::SET)
UartReadPoll ==
    /\ pc = "r_poll"
    /\ pc' = IF RxEmpty(FR) THEN "r_nop" ELSE "r_pop"
    /\ UNCHANGED <<drv, simFail, initLog, panicMsg, gpioRegs, uartRegs, spinI, trace,
                   mainPhase, data, ioIdx, rxFifo, txFifo, received, consumed, drOut,
                   ioRet, wire>>

\* PL011Uart::write: while self.FR.matches_all(FR::TXFF::SET)
UartWritePoll ==
    /\ pc = "w_poll"
    /\ pc' = IF TxFull(FR) THEN "w_nop" ELSE "w_push"
    /\ UNCHANGED <<drv, simFail, initLog, panicMsg, gpioRegs, uartRegs, spinI, trace,
                   mainPhase, data, ioIdx, rxFifo, txFifo, received, consumed, drOut,
                   ioRet, wire>>

\* bsp::nop() in the body of either polling loop
UartNop ==
    /\ pc \in {"r_nop", "w_nop"}
    /\ pc' = IF pc = "r_nop" THEN "r_poll" ELSE "w_poll"
    /\ UNCHANGED <<drv, simFail, initLog, panicMsg, gpioRegs, uartRegs, spinI, trace,
                   mainPhase, data, ioIdx, rxFifo, txFifo, received, consumed, drOut,
                   ioRet, wire>>

\* *byte = self.DR.read(DR::DATA) as u8; after the last byte of buf,
\* Ok(buf.len()) is returned to kernel_main
UartReadPop ==
    /\ pc = "r_pop"
    /\ LET w == IF rxFifo # <<>> THEN Head(rxFifo) ELSE 0 IN
       /\ data' = [data EXCEPT ![ioIdx + 1] = DrData(w)]
       /\ consumed' = Append(consumed, DrData(w))
    /\ rxFifo' = IF rxFifo # <<>> THEN Tail(rxFifo) ELSE rxFifo
    /\ ioIdx' = ioIdx + 1
    /\ pc' = IF ioIdx + 1 < Len(data) THEN "r_poll" ELSE "km_after_read"
    /\ ioRet' = IF ioIdx + 1 < Len(data) THEN ioRet ELSE UartIoResult(data)
    /\ UNCHANGED <<drv, simFail, initLog, panicMsg, gpioRegs, uartRegs, spinI, trace,
                   mainPhase, txFifo, received, drOut, wire>>

\* self.DR.write(DR::DATA.val(*byte as u32)); after the last byte of buf,
\* Ok(buf.len()) is returned to kernel_main, whose echo loop starts over
UartWritePush ==
    /\ pc = "w_push"
    /\ LET b == BitsValue(FieldVal(0, 8, data[ioIdx + 1])) IN
       /\ drOut' = Append(drOut, b)
       /\ txFifo' = IF Len(txFifo) < FifoDepth THEN Append(txFifo, b) ELSE txFifo
    /\ ioIdx' = ioIdx + 1
    /\ pc' = IF ioIdx + 1 < Len(data) THEN "w_poll" ELSE "km_read"
    /\ ioRet' = IF ioIdx + 1 < Len(data) THEN ioRet ELSE UartIoResult(data)
    /\ UNCHANGED <<drv, simFail, initLog, panicMsg, gpioRegs, uartRegs, spinI, trace,
                   mainPhase, data, rxFifo, received, consumed, wire>>

-----------------------------------------------------------------------------
(* Boot orchestrator: kernel.rs, bsp.rs, main.rs, kernel/driver.rs *)

Drivers_Swapped == <<"PL011Uart", "GPIO">>

\* bsp::drivers(): [&GPIO, &UART], by Driver::name
Drivers == <<"GPIO", "PL011Uart">>

DriverInitEntry_Mux(name) == IF name = "PL011Uart" THEN "uart_cr0" ELSE "gpio_fsel"

\* where driver.init() starts: PL011Uart has its own init, GPIO the default
\* body of the trait, Ok(())
DriverInitEntry(name) == IF name = "PL011Uart" THEN "uart_cr0" ELSE "drv_default"

DrvFailed_Ignore(res) == FALSE

\* if let Err(_) = driver.init()
DrvFailed(res) == ~res.ok

\* '\n' as u8
Newline == 10

IsNewline_Any(b) == TRUE

\* data[0] as char == '\n'
IsNewline(b) == b = Newline

BootInit ==
    /\ pc = "start"
    /\ drv = 0
    /\ simFail \in {"none"} \cup {Drivers[i] : i \in DOMAIN Drivers}
    /\ initLog = <<>>
    /\ panicMsg = <<>>
    /\ \E j \in RegJunk : gpioRegs = [r \in GpioRegNames |-> j]
    /\ \E j \in RegJunk : uartRegs = [r \in UartRegNames |-> j]
    /\ spinI = 0
    /\ trace = <<>>
    /\ mainPhase = "boot"
    /\ data = <<0>>
    /\ ioIdx = 0
    /\ rxFifo = <<>> /\ txFifo = <<>>
    /\ received = <<>> /\ consumed = <<>> /\ drOut = <<>>
    /\ ioRet = NoRet /\ wire = <<>>

\* _start calls kernel::init, which starts iterating bsp::drivers()
Start ==
    /\ pc = "start"
    /\ pc' = "drv_next"
    /\ drv' = 1
    /\ UNCHANGED <<simFail, initLog, panicMsg, gpioRegs, uartRegs, spinI, trace,
                   mainPhase, data, ioIdx, rxFifo, txFifo, received, consumed, drOut,
                   ioRet, wire>>

\* for driver in bsp::drivers().iter(): the next driver, or the end of the loop
DrvNext ==
    /\ pc = "drv_next"
    /\ pc' = IF drv <= Len(Drivers) THEN "drv_init" ELSE "post_init"
    /\ UNCHANGED <<drv, simFail, initLog, panicMsg, gpioRegs, uartRegs, spinI, trace,
                   mainPhase, data, ioIdx, rxFifo, txFifo, received, consumed, drOut,
                   ioRet, wire>>

\* driver.init() is called: the driver's own init, or, for the driver whose
\* init is simulated to fail, an init that returns Err at once
DrvInitCall ==
    /\ pc = "drv_init"
    /\ IF simFail = Drivers[drv]
       THEN /\ initLog' = Append(initLog, [name |-> Drivers[drv],
                                           res |-> Err(<<"KernelError">>)])
            /\ pc' = "drv_check"
       ELSE /\ pc' = DriverInitEntry(Drivers[drv])
            /\ UNCHANGED initLog
    /\ UNCHANGED <<drv, simFail, panicMsg, gpioRegs, uartRegs, spinI, trace,
                   mainPhase, data, ioIdx, rxFifo, txFifo, received, consumed, drOut,
                   ioRet, wire>>

\* Ok(()): the end of PL011Uart::init and the default body of Driver::init
DrvInitReturn ==
    /\ pc \in {"uart_ret", "drv_default"}
    /\ initLog' = Append(initLog, [name |-> Drivers[drv], res |-> OkUnit])
    /\ pc' = "drv_check"
    /\ UNCHANGED <<drv, simFail, panicMsg, gpioRegs, uartRegs, spinI, trace,
                   mainPhase, data, ioIdx, rxFifo, txFifo, received, consumed, drOut,
                   ioRet, wire>>

\* if let Err(_) = driver.init() { panic!("failed to load driver: {:?}", driver.name()) }
DrvCheck ==
    /\ pc = "drv_check"
    /\ IF DrvFailed(initLog[Len(initLog)].res)
       THEN /\ pc' = "panic"
            /\ panicMsg' = <<"failed to load driver: ", Drivers[drv]>>
            /\ UNCHANGED drv
       ELSE /\ pc' = "drv_next"
            /\ drv' = drv + 1
            /\ UNCHANGED panicMsg
    /\ UNCHANGED <<simFail, initLog, gpioRegs, uartRegs, spinI, trace,
                   mainPhase, data, ioIdx, rxFifo, txFifo, received, consumed, drOut,
                   ioRet, wire>>

\* the panic handler: loop {}
PanicLoop ==
    /\ pc = "panic"
    /\ UNCHANGED bootVars

\* bsp::post_init() calls GPIO.map_pl011_uart()
PostInit ==
    /\ pc = "post_init"
    /\ pc' = "gpio_fsel"
    /\ UNCHANGED <<drv, simFail, initLog, panicMsg, gpioRegs, uartRegs, spinI, trace,
                   mainPhase, data, ioIdx, rxFifo, txFifo, received, consumed, drOut,
                   ioRet, wire>>

\* kernel_main: bsp::console().read(&mut data), in either loop
KmRead ==
    /\ pc = "km_read"
    /\ ioIdx' = 0
    /\ pc' = IF Len(data) > 0 THEN "r_poll" ELSE "km_after_read"
    /\ ioRet' = IF Len(data) > 0 THEN NoRet ELSE UartIoResult(data)
    /\ UNCHANGED <<drv, simFail, initLog, panicMsg, gpioRegs, uartRegs, spinI, trace,
                   mainPhase, data, rxFifo, txFifo, received, consumed, drOut, wire>>

\* kernel_main after read returned: in the first loop the test for '\n'
\* (break, or read again); in the second bsp::console().write(&data)
KmAfterRead ==
    /\ pc = "km_after_read"
    /\ IF mainPhase = "wait"
       THEN /\ mainPhase' = IF IsNewline(data[1]) THEN "echo" ELSE "wait"
            /\ pc' = "km_read"
            /\ UNCHANGED <<ioIdx, ioRet>>
       ELSE /\ ioIdx' = 0
            /\ pc' = IF Len(data) > 0 THEN "w_poll" ELSE "km_read"
            /\ ioRet' = IF Len(data) > 0 THEN NoRet ELSE UartIoResult(data)
            /\ UNCHANGED mainPhase
    /\ UNCHANGED <<drv, simFail, initLog, panicMsg, gpioRegs, uartRegs, spinI, trace,
                   data, rxFifo, txFifo, received, consumed, drOut, wire>>

\* the entry of kernel_main: the state in which init returns after a boot
\* without a failing driver on registers that all held 0, no byte received yet
KernelMainInit ==
    /\ pc = "km_read"
    /\ mainPhase = "wait"
    /\ drv = Len(Drivers) + 1
    /\ simFail = "none"
    /\ initLog = [i \in DOMAIN Drivers |-> [name |-> Drivers[i], res |-> OkUnit]]
    /\ panicMsg = <<>>
    /\ gpioRegs = [r \in GpioRegNames |->
                     IF r = "GPFSEL1" THEN GpioFselUpdate({}) ELSE {}]
    /\ uartRegs = [r \in UartRegNames |->
                     CASE r = "CR" -> UartCrEnable
                       [] r = "ICR" -> UartIcrVal
                       [] r = "IBRD" -> UartIbrdVal
                       [] r = "FBRD" -> UartFbrdVal
                       [] OTHER -> UartLcrhVal]
    /\ spinI = SpinCycles
    /\ trace = <<WriteEv("CR", UartCrDisable({})), WriteEv("ICR", UartIcrVal),
                 WriteEv("IBRD", UartIbrdVal), WriteEv("FBRD", UartFbrdVal),
                 WriteEv("LCRH", UartLcrhVal), WriteEv("CR", UartCrEnable),
                 WriteEv("GPFSEL1", GpioFselUpdate({})), WriteEv("GPPUD", {}),
                 SpinEv(SpinCycles), WriteEv("GPPUDCLK0", GpioClkAssert({})),
                 SpinEv(SpinCycles), WriteEv("GPPUDCLK0", {})>>
    /\ data = <<0>>
    /\ ioIdx = 0
    /\ rxFifo = <<>> /\ txFifo = <<>>
    /\ received = <<>> /\ consumed = <<>> /\ drOut = <<>>
    /\ ioRet = NoRet /\ wire = <<>>

BootIdle ==
    /\ pc = "off" /\ drv = 0 /\ simFail = "none" /\ initLog = <<>> /\ panicMsg = <<>>
    /\ gpioRegs = [r \in GpioRegNames |-> {}] /\ uartRegs = [r \in UartRegNames |-> {}]
    /\ spinI = 0 /\ trace = <<>> /\ mainPhase = "boot" /\ data = <<0>> /\ ioIdx = 0
    /\ rxFifo = <<>> /\ txFifo = <<>>
    /\ received = <<>> /\ consumed = <<>> /\ drOut = <<>>
    /\ ioRet = NoRet /\ wire = <<>>

-----------------------------------------------------------------------------
(* Properties of the boot, the GPIO pin mux and the UART *)

IsGpioEv(e) == e.reg \in GpioRegNames \cup {"spin"}
IsUartEv(e) == e.reg \in UartRegNames
\* the GPIO register writes and busy-waits of the run, in order
GpioTrace == SelectSeq(trace, IsGpioEv)
\* the UART configuration register writes of the run, in order
UartTrace == SelectSeq(trace, IsUartEv)

\* the part of s after its first newline; empty if s has none
AfterNL(s) ==
    IF \E i \in 1..Len(s) : s[i] = 10
    THEN Drop(s, CHOOSE i \in 1..Len(s) : s[i] = 10 /\ \A j \in 1..(i - 1) : s[j] # 10)
    ELSE <<>>
\* the input byte stream: the DATA fields of the words received
InputBytes == [i \in 1..Len(received) |-> received[i] % 256]

\* PL011Uart::init itself (not a simulated failing init) has returned
UartInitReturned ==
    \E i \in DOMAIN initLog : initLog[i].name = "PL011Uart" /\ simFail # "PL011Uart"

\* C5: the GPIO trace of map_pl011_uart is, in this order: one GPFSEL1 write
\* with FSEL14 = FSEL15 = AltFunc0 (0b100), GPPUD := 0, a busy-wait of at
\* least 150 nops, a GPPUDCLK0 write with exactly bits 14 and 15 set, a
\* busy-wait of at least 150 nops, GPPUDCLK0 := 0; nothing more, nothing less
\* once map_pl011_uart has returned.
C5_GpioMuxTrace ==
    LET t == GpioTrace IN
    /\ Len(t) <= 6
    /\ (Len(t) >= 1) => /\ t[1].reg = "GPFSEL1"
                        /\ FieldRead(t[1].val, 12, 3) = 4
                        /\ FieldRead(t[1].val, 15, 3) = 4
    /\ (Len(t) >= 2) => t[2] = WriteEv("GPPUD", {})
    /\ (Len(t) >= 3) => (t[3].reg = "spin" /\ t[3].n >= 150)
    /\ (Len(t) >= 4) => t[4] = WriteEv("GPPUDCLK0", {14, 15})
    /\ (Len(t) >= 5) => (t[5].reg = "spin" /\ t[5].n >= 150)
    /\ (Len(t) >= 6) => t[6] = WriteEv("GPPUDCLK0", {})
    /\ (mainPhase # "boot") => Len(t) = 6

\* map_pl011_uart has returned, on a GPFSEL1 that held other set bits
C5_Witness ==
    /\ pc = "km_read" /\ mainPhase = "wait" /\ Len(GpioTrace) = 6
    /\ gpioRegs["GPFSEL1"] = (0..31) \ {12, 13, 15, 16}

\* C6: when PL011Uart::init has returned, whatever the registers held
\* before: it returned Ok(()), CR has UARTEN, TXE and RXE set, LCRH has
\* WLEN = 0b11 and FEN = 1, IBRD is 13 and FBRD is 2.
C6_UartInitPost ==
    \A i \in DOMAIN initLog :
       (initLog[i].name = "PL011Uart" /\ simFail # "PL011Uart") =>
          /\ initLog[i].res = OkUnit
          /\ {0, 8, 9} \subseteq uartRegs["CR"]
          /\ FieldRead(uartRegs["LCRH"], 5, 2) = 3
          /\ FieldRead(uartRegs["LCRH"], 4, 1) = 1
          /\ FieldRead(uartRegs["IBRD"], 0, 16) = 13
          /\ FieldRead(uartRegs["FBRD"], 0, 6) = 2

\* PL011Uart::init has just returned to kernel::init
C6_Witness ==
    /\ pc = "drv_check" /\ drv = 2 /\ UartInitReturned
    /\ Len(UartTrace) = 6

\* C7: PL011Uart::init writes CR := 0, ICR, IBRD, FBRD, LCRH, then the CR
\* enable, in this order; and from the first CR write until the last one
\* UARTEN, TXE and RXE are clear.
C7_UartInitOrder ==
    LET t == UartTrace
        order == <<"CR", "ICR", "IBRD", "FBRD", "LCRH", "CR">> IN
    /\ Len(t) <= 6
    /\ \A i \in 1..Len(t) : t[i].reg = order[i]
    /\ (Len(t) >= 1) => t[1].val = {}
    /\ (Len(t) >= 6) => {0, 8, 9} \subseteq t[6].val
    /\ (Len(t) \in 1..5) => uartRegs["CR"] \cap {0, 8, 9} = {}
    /\ (pc \in {"uart_icr", "uart_ibrd", "uart_fbrd", "uart_lcrh", "uart_cr"}) =>
          Len(t) \in 1..5
    /\ UartInitReturned => Len(t) = 6

\* init is about to write LCRH, which still holds its reset contents, with
\* the UART disabled
C7_Witness ==
    /\ pc = "uart_lcrh" /\ Len(UartTrace) = 4
    /\ uartRegs["LCRH"] = 0..31 /\ uartRegs["CR"] = {}

\* C8: the bytes written to the data register are the input bytes after the
\* first newline, in order and each once: the output is always a prefix of
\* that part of the input, it is all of what kernel_main has read after the
\* first newline whenever kernel_main is about to read (at most one byte
\* behind otherwise), and nothing is written while no newline has been read.
C8_EchoAfterNewline ==
    /\ IsPrefix(consumed, InputBytes)
    /\ IsPrefix(drOut, AfterNL(InputBytes))
    /\ IsPrefix(drOut, AfterNL(consumed))
    /\ Len(AfterNL(consumed)) - Len(drOut) \in {0, 1}
    /\ (pc = "km_read") => drOut = AfterNL(consumed)
    /\ (mainPhase # "echo") => drOut = <<>>

\* a byte, the newline, then two bytes that were echoed, one of them
\* received with a framing error flag
C8_Witness ==
    /\ pc = "km_read" /\ Len(consumed) = 4 /\ consumed[1] # 10 /\ consumed[2] = 10
    /\ drOut = <<98, 10>>

\* C9: once a driver's init has returned an error, the boot stays halted at
\* that driver: no later driver's init has been called or is called, the
\* panic carries the failing driver's name, BoardPostInit and MainLoop are
\* not entered and no GPIO register is written.
C9_InitFailureHalts ==
    /\ \A i \in DOMAIN initLog :
          ~initLog[i].res.ok =>
             /\ i = Len(initLog)
             /\ initLog[i].name = Drivers[i]
             /\ pc \in {"drv_check", "panic"}
             /\ (pc = "panic") => panicMsg = <<"failed to load driver: ", initLog[i].name>>
             /\ GpioTrace = <<>>
             /\ mainPhase = "boot"
             /\ (i = 1) => UartTrace = <<>>
    /\ (pc = "panic") => ~initLog[Len(initLog)].res.ok

\* the first driver's init failed and the boot is in the panic loop
C9_Witness ==
    /\ pc = "panic" /\ Len(initLog) = 1 /\ initLog[1].name = "GPIO"

\* C10: every GPIO register write comes after the CR enable write that ends
\* PL011Uart::init; while the driver loop runs no GPIO register has been written.
C10_GpioAfterUartInit ==
    /\ \A i \in DOMAIN trace :
          trace[i].reg \in GpioRegNames =>
             \E j \in 1..(i - 1) : trace[j].reg = "CR" /\ {0, 8, 9} \subseteq trace[j].val
    /\ (pc \in {"start", "drv_next", "drv_init", "drv_default", "drv_check",
                "uart_cr0", "uart_icr", "uart_ibrd", "uart_fbrd", "uart_lcrh",
                "uart_cr", "uart_ret"}) => GpioTrace = <<>>

\* the GPFSEL1 write is the seventh write of the boot, after the six of
\* PL011Uart::init
C10_Witness ==
    /\ Len(trace) >= 7 /\ trace[7].reg = "GPFSEL1" /\ trace[6].reg = "CR"

\* the state of the boot orchestrator at position p; a panic halts the
\* boot inside DriversInit
BootState(p) ==
    CASE p = "start" -> "Reset"
      [] p \in {"drv_next", "drv_init", "drv_default", "drv_check", "panic",
                "uart_cr0", "uart_icr", "uart_ibrd", "uart_fbrd", "uart_lcrh",
                "uart_cr", "uart_ret"} -> "DriversInit"
      [] p \in {"post_init", "gpio_fsel", "gpio_pud", "gpio_spin1", "gpio_clk",
                "gpio_spin2", "gpio_clk0"} -> "BoardPostInit"
      [] OTHER -> "MainLoop"

\* the drivers whose init has been called, in call order: those that
\* returned, and the one whose init is running
InitCalls ==
    [i \in 1..Len(initLog) |-> initLog[i].name]
    \o (IF pc \in {"drv_default", "uart_cr0", "uart_icr", "uart_ibrd", "uart_fbrd",
                   "uart_lcrh", "uart_cr", "uart_ret"}
        THEN <<Drivers[drv]>> ELSE <<>>)

\* C11: the boot orchestrator moves only Reset -> DriversInit ->
\* BoardPostInit -> MainLoop, one state at a time and never backwards, so
\* BoardPostInit is entered once and MainLoop is never left; the init calls
\* made are a prefix of [GPIO, PL011Uart], each driver once, and all of it
\* once DriversInit is left.
C11_BootStateOrder ==
    /\ [](/\ IsPrefix(InitCalls, <<"GPIO", "PL011Uart">>)
          /\ (BootState(pc) \in {"BoardPostInit", "MainLoop"}) =>
                (InitCalls = <<"GPIO", "PL011Uart">>
                 /\ \A i \in DOMAIN initLog : initLog[i].res.ok)
          /\ (BootState(pc) = "Reset") => InitCalls = <<>>
          /\ (BootState(pc) = "MainLoop") <=> (mainPhase # "boot"))
    /\ [][\/ BootState(pc') = BootState(pc)
          \/ <<BootState(pc), BootState(pc')>> \in
                {<<"Reset", "DriversInit">>, <<"DriversInit", "BoardPostInit">>,
                 <<"BoardPostInit", "MainLoop">>}]_vars

\* the echo loop runs after both drivers were initialised and the pin mux
\* was done
C11_Witness ==
    /\ BootState(pc) = "MainLoop" /\ mainPhase = "echo" /\ pc = "w_push"
    /\ InitCalls = <<"GPIO", "PL011Uart">> /\ Len(GpioTrace) = 6

-----------------------------------------------------------------------------
(* PL011Uart::read and PL011Uart::write on their own, for any buffer *)

\* the bytes of a buffer of n bytes handed to write: 65, 66, ...
WriteBuf(n) == [i \in 1..n |-> 64 + i]

\* a call of read (pc = "r_call") or of write (pc = "w_call") on an
\* initialised UART, with a buffer of any length; the transmit FIFO may still
\* hold words of earlier writes (zeros)
UartIoInit ==
    /\ pc \in {"r_call", "w_call"}
    /\ \E n \in 0..MaxBuf : data = IF pc = "r_call" THEN [i \in 1..n |-> 0] ELSE WriteBuf(n)
    /\ uartRegs = [r \in UartRegNames |->
                     CASE r = "CR" -> UartCrEnable
                       [] r = "ICR" -> UartIcrVal
                       [] r = "IBRD" -> UartIbrdVal
                       [] r = "FBRD" -> UartFbrdVal
                       [] OTHER -> UartLcrhVal]
    /\ \E k \in 0..FifoDepth : txFifo = [i \in 1..k |-> 0]
    /\ drOut = txFifo
    /\ rxFifo = <<>> /\ received = <<>> /\ consumed = <<>> /\ wire = <<>>
    /\ ioIdx = 0 /\ ioRet = NoRet
    /\ drv = 0 /\ simFail = "none" /\ initLog = <<>> /\ panicMsg = <<>>
    /\ gpioRegs = [r \in GpioRegNames |-> {}]
    /\ spinI = 0 /\ trace = <<>> /\ mainPhase = "boot"

\* for byte in buf: the entry of read or write; with an empty buf the loop
\* body never runs and Ok(buf.len()) is returned at once
UartCall ==
    /\ pc \in {"r_call", "w_call"}
    /\ ioIdx' = 0
    /\ pc' = IF Len(data) > 0
             THEN (IF pc = "r_call" THEN "r_poll" ELSE "w_poll")
             ELSE (IF pc = "r_call" THEN "km_after_read" ELSE "km_read")
    /\ ioRet' = IF Len(data) > 0 THEN NoRet ELSE UartIoResult(data)
    /\ UNCHANGED <<drv, simFail, initLog, panicMsg, gpioRegs, uartRegs, spinI, trace,
                   mainPhase, data, rxFifo, txFifo, received, consumed, drOut, wire>>

\* the bytes pushed into DR by the running write call (the words of earlier
\* writes are zeros)
IsPushed(b) == b # 0
Pushed == SelectSeq(drOut, IsPushed)

\* C12: write pushes a byte into DR only while the transmit FIFO is not full
\* (TXFF clear), so no word is lost; the bytes pushed are those of buf, in
\* order and each once; and write returns Ok(len(buf)), with all of buf pushed.
C12_WriteBlocksOnTxFull ==
    /\ (pc = "w_push") => Len(txFifo) < FifoDepth
    /\ Len(txFifo) <= FifoDepth
    /\ wire \o txFifo = drOut
    /\ (pc \in {"w_call", "w_poll", "w_nop", "w_push", "km_read"}) =>
          Pushed = Take(data, ioIdx)
    /\ (pc \in {"w_poll", "w_nop", "w_push"}) => (ioRet = NoRet /\ ioIdx < Len(data))
    /\ (pc = "km_read") => (ioRet = Ok(Len(data)) /\ Pushed = data)

\* a buffer longer than the FIFO was written: write returned with the FIFO
\* full and part of the buffer already shifted out
C12_Witness ==
    /\ pc = "km_read" /\ Len(data) = MaxBuf /\ ioRet = Ok(MaxBuf)
    /\ Len(txFifo) = FifoDepth /\ Len(wire) >= 1

\* C13: read pops a byte from DR only while the receive FIFO is not empty
\* (RXFE clear); the bytes popped are stored into buf in arrival order; and
\* read returns only with every position of buf filled, with Ok(len(buf)).
C13_ReadBlocksOnRxEmpty ==
    /\ (pc = "r_pop") => rxFifo # <<>>
    /\ IsPrefix(consumed, InputBytes)
    /\ (pc \in {"r_call", "r_poll", "r_nop", "r_pop", "km_after_read"}) =>
          (Len(consumed) = ioIdx /\ Take(data, ioIdx) = consumed)
    /\ (pc \in {"r_poll", "r_nop", "r_pop"}) => (ioRet = NoRet /\ ioIdx < Len(data))
    /\ (pc = "km_after_read") =>
          (ioRet = Ok(Len(data)) /\ data = Take(InputBytes, Len(data)))

\* a buffer of three bytes was filled, the last byte a word received with
\* its framing error flag set
C13_Witness ==
    /\ pc = "km_after_read" /\ Len(data) = 3 /\ ioRet = Ok(3)
    /\ received[3] = 354 /\ data[3] = 98

\* the positions of the boot inside map_pl011_uart
GpioPcs == {"gpio_fsel", "gpio_pud", "gpio_spin1", "gpio_clk", "gpio_spin2", "gpio_clk0"}
\* the registers map_pl011_uart names
MuxRegs == {"GPFSEL1", "GPPUD", "GPPUDCLK0"}

\* C20: map_pl011_uart writes no register but GPFSEL1, GPPUD and GPPUDCLK0 of
\* the GPIO block, and no UART register; its GPFSEL1 update keeps every bit
\* outside FSEL14 and FSEL15; when it has returned, GPPUD and GPPUDCLK0 hold 0.
C20_GpioMuxFrame ==
    /\ [][/\ pc \in GpioPcs =>
              /\ uartRegs' = uartRegs
              /\ \A r \in GpioRegNames \ MuxRegs : gpioRegs'[r] = gpioRegs[r]
              /\ trace' # trace =>
                    /\ Len(trace') = Len(trace) + 1
                    /\ trace'[Len(trace')].reg \in MuxRegs \cup {"spin"}
           /\ gpioRegs'["GPFSEL1"] \ GpioFselMask = gpioRegs["GPFSEL1"] \ GpioFselMask]_vars
    /\ [](mainPhase # "boot" =>
            /\ gpioRegs["GPPUD"] = {}
            /\ gpioRegs["GPPUDCLK0"] = {})

\* map_pl011_uart has returned on a GPIO block whose registers all held
\* 0xFFFFFFFF: only FSEL14 and FSEL15 of GPFSEL1 and the two pull registers
\* differ from that
C20_Witness ==
    /\ mainPhase # "boot"
    /\ gpioRegs["GPFSEL1"] = ((0..31) \ GpioFselMask) \cup {14, 17}
    /\ \A r \in GpioRegNames \ MuxRegs : gpioRegs[r] = 0..31
    /\ gpioRegs["GPPUD"] = {} /\ gpioRegs["GPPUDCLK0"] = {}
    /\ uartRegs["CR"] = {0, 8, 9}

-----------------------------------------------------------------------------
(* Specifications *)

InitTake == TakeInit /\ ChainIdle /\ ReadExactIdle /\ WriteAllIdle /\ WriteFmtIdle /\ BootIdle
NextTake == TakeReadAny /\ UNCHANGED <<chainVars, reVars, waVars, wfVars, bootVars>>
SpecTake == InitTake /\ [][NextTake]_vars

InitChain == ChainInit /\ TakeIdle /\ ReadExactIdle /\ WriteAllIdle /\ WriteFmtIdle /\ BootIdle
NextChain == ChainReadAny /\ UNCHANGED <<takeVars, reVars, waVars, wfVars, bootVars>>
SpecChain == InitChain /\ [][NextChain]_vars

InitReadExact == ReadExactInit /\ TakeIdle /\ ChainIdle /\ WriteAllIdle /\ WriteFmtIdle /\ BootIdle
NextReadExact == ReadExactStep /\ UNCHANGED <<takeVars, chainVars, waVars, wfVars, bootVars>>
SpecReadExact == InitReadExact /\ [][NextReadExact]_vars

InitWriteAll == WriteAllInit /\ TakeIdle /\ ChainIdle /\ ReadExactIdle /\ WriteFmtIdle /\ BootIdle
NextWriteAll == WriteAllStep /\ UNCHANGED <<takeVars, chainVars, reVars, wfVars, bootVars>>
SpecWriteAll == InitWriteAll /\ [][NextWriteAll]_vars

InitBoot == BootInit /\ TakeIdle /\ ChainIdle /\ ReadExactIdle /\ WriteAllIdle /\ WriteFmtIdle
\* a step of the boot leaves the I/O adapters alone
BootStep(A) == A /\ UNCHANGED <<takeVars, chainVars, reVars, waVars, wfVars>>
NextBoot ==
    \/ BootStep(Start)
    \/ BootStep(DrvNext)
    \/ BootStep(DrvInitCall)
    \/ BootStep(DrvInitReturn)
    \/ BootStep(DrvCheck)
    \/ BootStep(PanicLoop)
    \/ BootStep(UartInitCr0)
    \/ BootStep(UartInitIcr)
    \/ BootStep(UartInitIbrd)
    \/ BootStep(UartInitFbrd)
    \/ BootStep(UartInitLcrh)
    \/ BootStep(UartInitCr)
    \/ BootStep(PostInit)
    \/ BootStep(GpioFsel)
    \/ BootStep(GpioPud)
    \/ BootStep(Spin)
    \/ BootStep(GpioClk)
    \/ BootStep(GpioClk0)
    \/ BootStep(KmRead)
    \/ BootStep(KmAfterRead)
    \/ BootStep(UartReadPoll)
    \/ BootStep(UartReadPop)
    \/ BootStep(UartWritePoll)
    \/ BootStep(UartWritePush)
    \/ BootStep(UartNop)
    \/ BootStep(HwRxArrive)
    \/ BootStep(HwTxDrain)
SpecBoot == InitBoot /\ [][NextBoot]_vars

InitConsole ==
    KernelMainInit /\ TakeIdle /\ ChainIdle /\ ReadExactIdle /\ WriteAllIdle /\ WriteFmtIdle
NextConsole ==
    \/ BootStep(KmRead)
    \/ BootStep(KmAfterRead)
    \/ BootStep(UartReadPoll)
    \/ BootStep(UartReadPop)
    \/ BootStep(UartWritePoll)
    \/ BootStep(UartWritePush)
    \/ BootStep(UartNop)
    \/ BootStep(HwRxArrive)
    \/ BootStep(HwTxDrain)

\* a step of the processor: any step of kernel_main that is not the hardware's
CpuNext == NextConsole /\ received' = received /\ wire' = wire

\* the hardware is fair: a non-empty transmit FIFO is eventually drained, and
\* a byte the line can still deliver eventually arrives
HwFair == WF_vars(BootStep(HwTxDrain)) /\ WF_vars(BootStep(HwRxArrive))

ReadPollPcs == {"r_poll", "r_nop"}
WritePollPcs == {"w_poll", "w_nop"}

\* C17: with fair hardware every PL011Uart::read the line can still serve
\* and every PL011Uart::write returns Ok(buf.len()), and every byte received
\* after the first newline is written back; with RXFE set forever a read,
\* and with TXFF set forever a write, never returns; no call reports an error.
C17_ConsoleLiveness ==
    /\ HwFair =>
          /\ (pc \in ReadPollPcs \cup {"r_pop"}
                 /\ (rxFifo # <<>> \/ Len(received) < MaxInput))
                ~> (pc = "km_after_read" /\ ioRet = Ok(Len(data)))
          /\ (pc \in WritePollPcs \cup {"w_push"})
                ~> (pc = "km_read" /\ ioRet = Ok(Len(data)))
          /\ \A k \in 1..MaxInput :
                (mainPhase # "boot" /\ Len(AfterNL(InputBytes)) >= k)
                  ~> (/\ Len(drOut) >= k /\ drOut[k] = AfterNL(InputBytes)[k]
                      /\ Len(wire) >= k /\ wire[k] = AfterNL(InputBytes)[k])
    /\ []((pc \in ReadPollPcs /\ []RxEmpty(FR))
            => [](pc \in ReadPollPcs /\ ioRet = NoRet))
    /\ []((pc \in WritePollPcs /\ []TxFull(FR))
            => [](pc \in WritePollPcs /\ ioRet = NoRet))
    /\ [](ioRet \in {NoRet, Ok(Len(data))})

\* every byte the line could deliver was received, those after the newline
\* are all on the wire, and the next read polls an empty receive FIFO
C17_Witness ==
    /\ pc = "r_nop" /\ mainPhase = "echo"
    /\ Len(received) = MaxInput /\ rxFifo = <<>> /\ txFifo = <<>>
    /\ Len(AfterNL(InputBytes)) = MaxInput - 1
    /\ wire = AfterNL(InputBytes)

\* the processor keeps executing: its next instruction is eventually taken
FairSpecConsole == InitConsole /\ [][NextConsole]_vars /\ WF_vars(CpuNext)

InitWriteFmt == WriteFmtInit /\ WriteAllIdle /\ TakeIdle /\ ChainIdle /\ ReadExactIdle /\ BootIdle
NextWriteFmt ==
    \/ WfNext /\ UNCHANGED <<takeVars, chainVars, reVars, bootVars>>
    \/ WriteAllStep /\ UNCHANGED <<takeVars, chainVars, reVars, wfVars, bootVars>>
    \/ WfWriteStrReturn /\ UNCHANGED <<takeVars, chainVars, reVars, bootVars>>
SpecWriteFmt == InitWriteFmt /\ [][NextWriteFmt]_vars

InitUartIo == UartIoInit /\ TakeIdle /\ ChainIdle /\ ReadExactIdle /\ WriteAllIdle /\ WriteFmtIdle
NextUartIo ==
    \/ BootStep(UartCall)
    \/ BootStep(UartReadPoll)
    \/ BootStep(UartReadPop)
    \/ BootStep(UartWritePoll)
    \/ BootStep(UartWritePush)
    \/ BootStep(UartNop)
    \/ BootStep(HwRxArrive)
    \/ BootStep(HwTxDrain)
SpecUartIo == InitUartIo /\ [][NextUartIo]_vars

=============================================================================
